---- MODULE Spec2Model ----
(***************************************************************************)
(* The literature manager (src/src/App.jsx): the password gate of          *)
(* AppWrapper, the App component's Firebase initialisation and snapshot    *)
(* subscription, the editor modal, the delete confirmation and the three   *)
(* remote mutations, together with the remote "literature" collection and  *)
(* the browser's session storage they act on.                              *)
(*                                                                         *)
(* A document carries the two fields the editor constrains, relevance and  *)
(* status; the text fields go through the same handleChange and the same   *)
(* spread as status does.                                                  *)
(*                                                                         *)
(* Spec is the page from its first load: the gate, the identity, the       *)
(* subscription, the editor and the remote calls, with the list controls   *)
(* left at their initial values.  SpecView is the list view of a page      *)
(* whose subscription has delivered a snapshot: the search box, the status *)
(* filter and the column headers over a fixed mirror.                      *)
(***************************************************************************)
EXTENDS Integers, Sequences, FiniteSets, TLC

VARIABLES
    sessionItem,        \* sessionStorage.getItem('isAuthenticated')
    isAuthenticated,    \* AppWrapper state
    password,           \* PasswordGate state
    error,              \* PasswordGate state
    started,            \* the page load the last step made: "open", "reload"
    configSet,          \* firebaseConfig.apiKey is truthy (build time)
    app,                \* App component: "none", "mounted", "torn"
    db,                 \* App state
    isAuthReady,        \* App state
    isLoading,          \* App state
    literature,         \* App state: the local mirror
    isModalOpen,        \* App state
    editingEntry,       \* App state
    showDeleteConfirm,  \* App state (0 is null)
    searchTerm,         \* App state (a text is the sequence of its characters)
    sortConfig,         \* App state
    statusFilter,       \* App state
    formData,           \* LiteratureModal state (Null while not mounted)
    authState,          \* the onAuthStateChanged listener and sign-in chain
    listeners,          \* active onSnapshot listeners of this page
    unsubscribe,        \* the handle the data effect holds
    logged,             \* the console.error the last step wrote, if any
    pending,            \* remote calls in flight
    store,              \* the remote collection: document id -> fields
    nextId,             \* the next identifier addDoc assigns
    dirty,              \* the collection changed since the last snapshot sent
    lastSnapshot,       \* the snapshot delivered last to this page, if any
    acked               \* the last acknowledged save not yet overwritten

vars == <<sessionItem, isAuthenticated, password, error, started, configSet,
          app, db, isAuthReady, isLoading, literature, isModalOpen,
          editingEntry, showDeleteConfirm, searchTerm, sortConfig, statusFilter,
          formData, authState, listeners, unsubscribe, logged, pending, store,
          nextId, dirty, lastSnapshot, acked>>

\* a step that loads no page and writes nothing to the console
Quiet == started' = "none" /\ logged' = "none"

gateVars == <<sessionItem, isAuthenticated, password, error>>
uiVars == <<isModalOpen, editingEntry, showDeleteConfirm, formData>>
viewVars == <<searchTerm, sortConfig, statusFilter>>
storeVars == <<store, nextId, acked>>

----------------------------------------------------------------------------
(* Bounds of the model. *)

MaxDocs == 1
MaxPending == 1

(* Program constants. *)

totalStars == 3
defaultRelevance == 2
SHARED_PASSWORD == "secret"
IncorrectPassword == "Incorrect password. Please try again."
statusOptions ==
    <<"To Read", "Reading", "Completed", "Suggested for Benchmark", "Benchmark">>

(* Inputs. *)

PasswordInputs == {"", "secret", "Secret", "guess"}
StatusInputs == {statusOptions[1], statusOptions[2]}

\* the stars clicked: the first and the last of [...Array(totalStars)]
StarIndexes == {0, totalStars - 1}

\* a star whose value is its index
StarValueIsIndex(index) == index

\* RatingStars: const starValue = index + 1
StarValue(index) == index + 1

\* the ratings onRatingChange(starValue) can hand to the editor
RatingInputs == {StarValue(i) : i \in StarIndexes}

Null == [nil |-> TRUE]

----------------------------------------------------------------------------
(* Pure helpers. *)

\* { ...a, ...b }
Spread(a, b) ==
    [f \in (DOMAIN a) \cup (DOMAIN b) |-> IF f \in DOMAIN b THEN b[f] ELSE a[f]]

\* const { id, ...dataToSave } = formData
StripId(fd) == [f \in (DOMAIN fd) \ {"id"} |-> fd[f]]

\* doc => ({ id: doc.id, ...doc.data() })
DocToEntry(docId, data) == Spread([id |-> docId], data)

RECURSIVE DocsFrom(_, _)
DocsFrom(coll, ids) ==
    IF ids = {} THEN << >>
    ELSE LET m == CHOOSE i \in ids : \A j \in ids : i <= j
         IN  <<DocToEntry(m, coll[m])>> \o DocsFrom(coll, ids \ {m})

\* querySnapshot.docs.map(...): the documents in identifier order
ToEntries(coll) == DocsFrom(coll, DOMAIN coll)

\* useState({... relevance: 2, status: statusOptions[0] ...})
DefaultForm == [relevance |-> defaultRelevance, status |-> statusOptions[1]]

Range(s) == {s[i] : i \in DOMAIN s}
MirrorIds == {e.id : e \in Range(literature)}
RemoveAt(s, i) == SubSeq(s, 1, i - 1) \o SubSeq(s, i + 1, Len(s))
Restrict(f, S) == [x \in S |-> f[x]]

----------------------------------------------------------------------------
(* Page life cycle and the password gate. *)

\* useState(sessionStorage.getItem('isAuthenticated') === 'true')
InitialAuthenticated(item) == item = "true"

\* a gate that guards nothing
AppWrapperAlwaysShowsApp(auth) == TRUE

\* AppWrapper: if (!isAuthenticated) return <PasswordGate/>; return <App/>
AppWrapperShowsApp(auth) == auth

\* useState(''), useState({ key: 'relevance', direction: 'descending' }),
\* useState('All')
InitialView(term, cfg, filter) ==
    /\ term = << >>
    /\ cfg = [key |-> "relevance", direction |-> "descending"]
    /\ filter = "All"

\* the state of a page on which App has not been mounted
NoApp ==
    /\ app' = "none"
    /\ InitialView(searchTerm', sortConfig', statusFilter')
    /\ db' = "null"
    /\ isAuthReady' = FALSE
    /\ isLoading' = TRUE
    /\ literature' = << >>
    /\ isModalOpen' = FALSE
    /\ editingEntry' = Null
    /\ showDeleteConfirm' = 0
    /\ formData' = Null
    /\ authState' = "idle"
    /\ listeners' = 0
    /\ unsubscribe' = "none"
    /\ logged' = "none"
    /\ dirty' = FALSE
    /\ lastSnapshot' = << >>

\* a data effect that does not wait for the identity
DataEffectIgnoresAuth(dbv, ready) == dbv # "null"

\* the data effect's condition: if (db && isAuthReady)
DataEffectSubscribes(dbv, ready) == dbv # "null" /\ ready

\* an early return that leaves the loader up
InitEffectKeepsLoading(cfg) == TRUE

\* the initialisation effect: isLoading once it has run; its early return on a
\* missing apiKey calls setIsLoading(false)
InitEffectLoading(cfg) == cfg

\* App mounts with its initial state and both effects run once
MountApp ==
    /\ app' = "mounted"
    /\ InitialView(searchTerm', sortConfig', statusFilter')
    /\ isAuthReady' = FALSE
    /\ literature' = << >>
    /\ isModalOpen' = FALSE
    /\ editingEntry' = Null
    /\ showDeleteConfirm' = 0
    /\ formData' = Null
    /\ lastSnapshot' = << >>
    /\ dirty' = FALSE
    /\ isLoading' = InitEffectLoading(configSet)
    /\ IF ~configSet
       THEN /\ logged' = "config"
            /\ db' = "null"
            /\ authState' = "idle"
       ELSE /\ logged' = "none"
            /\ db' = "firestore"
            /\ authState' = "listening"
    \* db is set and isAuthReady is false: the data effect subscribes nothing
    /\ listeners' = IF DataEffectSubscribes(db', FALSE) THEN 1 ELSE 0
    /\ unsubscribe' = IF DataEffectSubscribes(db', FALSE) THEN "active" ELSE "none"

\* a page is loaded: AppWrapper reads the flag from session storage
PageStart(item) ==
    /\ isAuthenticated' = InitialAuthenticated(item)
    /\ password' = ""
    /\ error' = ""
    \* a call in flight settles before the page goes or is lost with it
    /\ pending' = << >>
    /\ IF AppWrapperShowsApp(isAuthenticated') THEN MountApp ELSE NoApp

Reload ==
    /\ sessionItem' = sessionItem
    /\ started' = "reload"
    /\ PageStart(sessionItem)
    /\ UNCHANGED <<configSet, storeVars>>

\* the browser session ends and a new one opens the page
NewSession ==
    /\ sessionItem' = "null"
    /\ started' = "open"
    /\ PageStart("null")
    /\ UNCHANGED <<configSet, storeVars>>

\* PasswordGate input onChange
GateType(p) ==
    /\ Quiet
    /\ ~isAuthenticated
    /\ password' = p
    /\ error' = ""
    /\ UNCHANGED <<viewVars, sessionItem, isAuthenticated, configSet, app, db,
                   isAuthReady, isLoading, literature, uiVars, authState,
                   listeners, unsubscribe, pending, dirty,
                   lastSnapshot, storeVars>>

\* a comparison that ignores case
PasswordMatchesAnyCase(p) == p \in {"secret", "Secret"}

\* password === SHARED_PASSWORD
PasswordMatches(p) == p = SHARED_PASSWORD

\* a submit that forgets the session flag
SessionItemKept(item) == item

\* sessionStorage.setItem('isAuthenticated', 'true')
SessionItemOnUnlock(item) == "true"

\* PasswordGate.handleSubmit
GateSubmit ==
    /\ ~isAuthenticated
    /\ IF PasswordMatches(password)
       THEN /\ isAuthenticated' = TRUE
            /\ sessionItem' = SessionItemOnUnlock(sessionItem)
            /\ password' = ""
            /\ error' = ""
            /\ IF AppWrapperShowsApp(TRUE) THEN MountApp ELSE NoApp
       ELSE /\ error' = IncorrectPassword
            /\ logged' = "none"
            /\ UNCHANGED <<viewVars, sessionItem, isAuthenticated, password, app, db,
                           isAuthReady, isLoading, literature, uiVars, authState,
                           listeners, unsubscribe, dirty, lastSnapshot>>
    /\ started' = "none"
    /\ UNCHANGED <<configSet, pending, storeVars>>

\* an effect that returns no cleanup
DataEffectNoCleanup(handle, n) == n

\* return () => unsubscribe()
DataEffectCleanup(handle, n) == IF handle = "active" THEN n - 1 ELSE n

\* the component tree is torn down: the data effect's cleanup runs
Unmount ==
    /\ Quiet
    /\ app = "mounted"
    /\ app' = "torn"
    /\ listeners' = DataEffectCleanup(unsubscribe, listeners)
    /\ unsubscribe' = "none"
    /\ UNCHANGED <<viewVars, gateVars, configSet, pending, db, isAuthReady, isLoading, literature,
                   uiVars, authState, dirty, lastSnapshot, storeVars>>

----------------------------------------------------------------------------
(* Identity and the snapshot subscription. *)

appVarsButAuth == <<db, isLoading, literature, uiVars, lastSnapshot>>

\* onAuthStateChanged fires with no user: signInAnonymously(auth) is called
AuthNoUser ==
    /\ Quiet
    /\ authState = "listening"
    /\ authState' = "signingIn"
    /\ UNCHANGED <<viewVars, gateVars, configSet, app, isAuthReady, appVarsButAuth,
                   listeners, unsubscribe, pending, dirty, storeVars>>

\* signInAnonymously rejects: catch (error) { console.error(error); }
SignInFails ==
    /\ authState = "signingIn"
    /\ authState' = "failed"
    /\ logged' = "auth"
    /\ started' = "none"
    /\ UNCHANGED <<viewVars, gateVars, configSet, app, db, isAuthReady, isLoading,
                   literature, uiVars, lastSnapshot, listeners, unsubscribe,
                   pending, dirty, storeVars>>

\* onAuthStateChanged fires with a user (a persisted one, or the one signed in):
\* setIsAuthReady(true), and the data effect runs again on the changed dependency
AuthUser ==
    /\ Quiet
    /\ authState \in {"listening", "signingIn"}
    /\ authState' = "ready"
    /\ IF app = "mounted"
       THEN /\ isAuthReady' = TRUE
            /\ IF isAuthReady
               THEN UNCHANGED <<listeners, unsubscribe, dirty>>
               ELSE LET cleaned == DataEffectCleanup(unsubscribe, listeners)
                    IN  IF DataEffectSubscribes(db, TRUE)
                        THEN /\ listeners' = cleaned + 1
                             /\ unsubscribe' = "active"
                             /\ dirty' = TRUE
                        ELSE /\ listeners' = cleaned
                             /\ unsubscribe' = "none"
                             /\ dirty' = dirty
       ELSE UNCHANGED <<isAuthReady, listeners, unsubscribe, dirty>>
    /\ UNCHANGED <<viewVars, gateVars, configSet, app, appVarsButAuth, pending, storeVars>>

\* a callback that adds the snapshot to the mirror
SnapshotAppended(coll, mirror) == mirror \o ToEntries(coll)

\* a callback that keeps the entries the mirror already knows
SnapshotKeepsKnown(coll, mirror) ==
    LET fresh == ToEntries(coll)
    IN  [i \in DOMAIN fresh |->
            IF \E k \in DOMAIN mirror : mirror[k].id = fresh[i].id
            THEN mirror[CHOOSE k \in DOMAIN mirror : mirror[k].id = fresh[i].id]
            ELSE fresh[i]]

\* setLiterature(literatureData): the mirror is replaced
SnapshotMirror(coll, mirror) == ToEntries(coll)

\* the onSnapshot callback: the whole current collection is delivered
Snapshot ==
    /\ Quiet
    /\ listeners > 0
    /\ dirty
    /\ dirty' = FALSE
    /\ IF app = "mounted"
       THEN /\ literature' = SnapshotMirror(store, literature)
            /\ isLoading' = FALSE
            /\ lastSnapshot' = <<store>>
       ELSE UNCHANGED <<literature, isLoading, lastSnapshot>>
    /\ UNCHANGED <<viewVars, gateVars, configSet, app, db, isAuthReady, uiVars, authState,
                   listeners, unsubscribe, pending, storeVars>>

\* the onSnapshot error callback: the listener is ended by the store
SnapshotError ==
    /\ listeners > 0
    /\ unsubscribe = "active"
    /\ listeners' = listeners - 1
    /\ unsubscribe' = "ended"
    /\ logged' = "fetch"
    /\ started' = "none"
    /\ isLoading' = FALSE
    /\ UNCHANGED <<viewVars, gateVars, configSet, app, db, isAuthReady, literature, uiVars,
                   authState, pending, dirty, lastSnapshot, storeVars>>

----------------------------------------------------------------------------
(* The list view, the editor modal and the delete confirmation. *)

\* the main view is rendered: if (isLoading) return <Loader/>
ViewRendered == app = "mounted" /\ ~isLoading

\* the list's controls can be reached: the modal and the confirmation are
\* full-screen overlays (fixed inset-0 z-50) that cover the list
ListReachable == ViewRendered /\ ~isModalOpen /\ showDeleteConfirm = 0

\* LiteratureModal mounts: useState(defaults), then
\* useEffect(() => { if (entry) setFormData(entry) }, [entry])
ModalForm(entry) == IF entry # Null THEN entry ELSE DefaultForm

\* openModal(entry = null)
OpenModal(entry) ==
    /\ Quiet
    /\ ListReachable
    /\ editingEntry' = entry
    /\ isModalOpen' = TRUE
    /\ formData' = ModalForm(entry)
    /\ UNCHANGED <<viewVars, gateVars, configSet, app, db, isAuthReady, isLoading,
                   literature, showDeleteConfirm, authState, listeners,
                   unsubscribe, pending, dirty, lastSnapshot, storeVars>>

\* closeModal, from the modal's own buttons
CloseModal ==
    /\ Quiet
    /\ ViewRendered
    /\ isModalOpen
    /\ editingEntry' = Null
    /\ isModalOpen' = FALSE
    /\ formData' = Null
    /\ UNCHANGED <<viewVars, gateVars, configSet, app, db, isAuthReady, isLoading,
                   literature, showDeleteConfirm, authState, listeners,
                   unsubscribe, pending, dirty, lastSnapshot, storeVars>>

\* LiteratureModal.handleChange on the status select
HandleChange(name, value) ==
    /\ Quiet
    /\ ViewRendered
    /\ isModalOpen
    /\ formData' = Spread(formData, [f \in {name} |-> value])
    /\ UNCHANGED <<viewVars, gateVars, configSet, app, db, isAuthReady, isLoading,
                   literature, isModalOpen, editingEntry, showDeleteConfirm,
                   authState, listeners, unsubscribe, pending, dirty,
                   lastSnapshot, storeVars>>

\* LiteratureModal.handleRatingChange, from RatingStars' onClick
HandleRatingChange(newRating) ==
    /\ Quiet
    /\ ViewRendered
    /\ isModalOpen
    /\ formData' = Spread(formData, [relevance |-> newRating])
    /\ UNCHANGED <<viewVars, gateVars, configSet, app, db, isAuthReady, isLoading,
                   literature, isModalOpen, editingEntry, showDeleteConfirm,
                   authState, listeners, unsubscribe, pending, dirty,
                   lastSnapshot, storeVars>>

\* openDeleteConfirm(item.id)
OpenDeleteConfirm(id) ==
    /\ Quiet
    /\ ListReachable
    /\ id \in MirrorIds
    /\ showDeleteConfirm' = id
    /\ UNCHANGED <<viewVars, gateVars, configSet, app, db, isAuthReady, isLoading,
                   literature, isModalOpen, editingEntry, formData, authState,
                   listeners, unsubscribe, pending, dirty, lastSnapshot,
                   storeVars>>

\* closeDeleteConfirm, from the confirmation's Cancel
CloseDeleteConfirm ==
    /\ Quiet
    /\ ViewRendered
    /\ showDeleteConfirm # 0
    /\ showDeleteConfirm' = 0
    /\ UNCHANGED <<viewVars, gateVars, configSet, app, db, isAuthReady, isLoading,
                   literature, isModalOpen, editingEntry, formData, authState,
                   listeners, unsubscribe, pending, dirty, lastSnapshot,
                   storeVars>>

----------------------------------------------------------------------------
(* The remote mutations. *)

CreatesInFlight == Cardinality({i \in DOMAIN pending : pending[i].kind = "create"})
CanIssue == Len(pending) < MaxPending
CanCreate == nextId + CreatesInFlight <= MaxDocs

\* a submit that hands the draft over as it is
SubmitPayloadWithId(fd) == fd

\* LiteratureModal.handleSubmit: the record handed to onSave
SubmitPayload(fd) == StripId(fd)

\* handleSave: updateDoc(doc(db,'literature',editingEntry.id), entryData) when
\* an entry is being edited, addDoc(collection(db,'literature'), entryData) else
SaveCall(editing, entryData) ==
    IF editing # Null
    THEN [src |-> "save", kind |-> "update", id |-> editing.id,
          data |-> entryData]
    ELSE [src |-> "save", kind |-> "create", id |-> 0,
          data |-> entryData]

\* handleDelete: deleteDoc(doc(db,'literature',id))
DeleteCall(id) ==
    [src |-> "remove", kind |-> "delete", id |-> id, data |-> Null]

\* handleStatusChange: updateDoc(doc(db,'literature',id), { status: newStatus })
StatusCall(id, newStatus) ==
    [src |-> "setStatus", kind |-> "patch", id |-> id,
     data |-> [status |-> newStatus]]

uiUnchanged == <<viewVars, gateVars, configSet, app, db, isAuthReady, isLoading,
                 literature, uiVars, authState, listeners, unsubscribe, dirty, lastSnapshot, storeVars>>

\* the form's onSubmit: handleSubmit, then handleSave up to its await
Submit ==
    /\ Quiet
    /\ ViewRendered
    /\ isModalOpen
    /\ IF db = "null"
       THEN UNCHANGED pending
       ELSE LET call == SaveCall(editingEntry, SubmitPayload(formData))
            IN  /\ CanIssue
                /\ call.kind = "create" => CanCreate
                /\ pending' = Append(pending, call)
    /\ UNCHANGED uiUnchanged

\* the confirmation's Delete: handleDelete(showDeleteConfirm) up to its await
ConfirmDelete ==
    /\ Quiet
    /\ ViewRendered
    /\ showDeleteConfirm # 0
    /\ IF db = "null"
       THEN UNCHANGED pending
       ELSE /\ CanIssue
            /\ pending' = Append(pending, DeleteCall(showDeleteConfirm))
    /\ UNCHANGED uiUnchanged

\* a row's status select: handleStatusChange(item.id, value) up to its await
StatusChange(id, newStatus) ==
    /\ Quiet
    /\ ListReachable
    /\ id \in MirrorIds
    /\ IF db = "null"
       THEN UNCHANGED pending
       ELSE /\ CanIssue
            /\ pending' = Append(pending, StatusCall(id, newStatus))
    /\ UNCHANGED uiUnchanged

----------------------------------------------------------------------------
(* The remote collection. *)

\* a store in which the fields a document already has win over an update
ApplyWriteKeepsStored(coll, op, newId) ==
    CASE op.kind = "create" ->
           [d \in (DOMAIN coll) \cup {newId} |->
               IF d = newId THEN op.data ELSE coll[d]]
      [] op.kind \in {"update", "patch"} ->
           [coll EXCEPT ![op.id] = Spread(op.data, @)]
      [] OTHER -> Restrict(coll, (DOMAIN coll) \ {op.id})

\* addDoc stores the fields under a new identifier; updateDoc overwrites the
\* given fields of an existing document; deleteDoc removes the document
ApplyWrite(coll, op, newId) ==
    CASE op.kind = "create" ->
           [d \in (DOMAIN coll) \cup {newId} |->
               IF d = newId THEN op.data ELSE coll[d]]
      [] op.kind \in {"update", "patch"} ->
           [coll EXCEPT ![op.id] = Spread(@, op.data)]
      [] OTHER -> Restrict(coll, (DOMAIN coll) \ {op.id})

\* updateDoc rejects when the document does not exist
CanSucceed(op) == op.kind \in {"update", "patch"} => op.id \in DOMAIN store

\* the mirror of this page is out of date once the collection changes
Stale(changed) == dirty \/ (changed /\ (listeners > 0 \/ lastSnapshot # << >>))

\* a handleSave that closes the modal in its catch too
SaveSettledModalClosed(ok, open) == FALSE

\* handleSave: closeModal() after the await, inside the try only
SaveSettledModal(ok, open) == IF ok THEN FALSE ELSE open

\* handleDelete: closeDeleteConfirm() in the try and in the catch
DeleteSettledConfirm(ok, id) == 0

\* the continuation of the handler that awaits the call
Continue(op, ok) ==
    CASE op.src = "save" ->
           /\ isModalOpen' = SaveSettledModal(ok, isModalOpen)
           /\ IF isModalOpen'
              THEN UNCHANGED <<editingEntry, formData>>
              ELSE editingEntry' = Null /\ formData' = Null
           /\ logged' = IF ok THEN "none" ELSE "save"
           /\ UNCHANGED showDeleteConfirm
      [] op.src = "remove" ->
           /\ showDeleteConfirm' = DeleteSettledConfirm(ok, showDeleteConfirm)
           /\ logged' = IF ok THEN "none" ELSE "delete"
           /\ UNCHANGED <<isModalOpen, editingEntry, formData>>
      [] OTHER ->
           /\ logged' = IF ok THEN "none" ELSE "status"
           /\ UNCHANGED uiVars

\* the store acknowledges (ok) or rejects the call in flight at position i
Settle(i, ok) ==
    /\ started' = "none"
    /\ i \in DOMAIN pending
    /\ LET op == pending[i]
           target == IF op.kind = "create" THEN nextId ELSE op.id
       IN  /\ ok => CanSucceed(op)
           /\ pending' = RemoveAt(pending, i)
           /\ store' = IF ok THEN ApplyWrite(store, op, nextId) ELSE store
           /\ nextId' = IF ok /\ op.kind = "create" THEN nextId + 1 ELSE nextId
           /\ dirty' = Stale(store' # store)
           /\ acked' = IF ok /\ op.src = "save"
                       THEN <<[id |-> target, data |-> op.data]>>
                       ELSE IF ok /\ acked # << >> /\ acked[1].id = op.id
                       THEN << >>
                       ELSE acked
           /\ IF app = "mounted"
              THEN Continue(op, ok)
              ELSE /\ UNCHANGED uiVars
                   /\ logged' = "none"
    /\ UNCHANGED <<viewVars, gateVars, configSet, app, db, isAuthReady, isLoading,
                   literature, authState, listeners, unsubscribe, lastSnapshot>>

\* another client's handleStatusChange is acknowledged by the store
OtherClientSetStatus(id, newStatus) ==
    /\ Quiet
    /\ id \in DOMAIN store
    /\ store' = ApplyWrite(store, StatusCall(id, newStatus), nextId)
    /\ dirty' = Stale(store' # store)
    /\ acked' = IF acked # << >> /\ acked[1].id = id THEN << >> ELSE acked
    /\ UNCHANGED <<viewVars, gateVars, configSet, app, db, isAuthReady, isLoading,
                   literature, uiVars, authState, listeners, unsubscribe, pending, lastSnapshot, nextId>>

----------------------------------------------------------------------------
(* The specification. *)

Init ==
    /\ sessionItem = "null"
    /\ isAuthenticated = FALSE
    /\ password = ""
    /\ error = ""
    /\ started = "open"
    /\ configSet \in BOOLEAN
    /\ app = "none"
    /\ db = "null"
    /\ isAuthReady = FALSE
    /\ isLoading = TRUE
    /\ literature = << >>
    /\ isModalOpen = FALSE
    /\ editingEntry = Null
    /\ showDeleteConfirm = 0
    /\ InitialView(searchTerm, sortConfig, statusFilter)
    /\ formData = Null
    /\ authState = "idle"
    /\ listeners = 0
    /\ unsubscribe = "none"
    /\ logged = "none"
    /\ pending = << >>
    /\ \/ store = << >> /\ nextId = 1
       \/ store = <<DefaultForm>> /\ nextId = 2
    /\ dirty = FALSE
    /\ lastSnapshot = << >>
    /\ acked = << >>

Next ==
    \/ Reload
    \/ NewSession
    \/ \E p \in PasswordInputs : GateType(p)
    \/ GateSubmit
    \/ Unmount
    \/ AuthNoUser
    \/ SignInFails
    \/ AuthUser
    \/ Snapshot
    \/ SnapshotError
    \/ \E e \in Range(literature) \cup {Null} : OpenModal(e)
    \/ CloseModal
    \/ \E s \in StatusInputs : HandleChange("status", s)
    \/ \E r \in RatingInputs : HandleRatingChange(r)
    \/ \E id \in MirrorIds : OpenDeleteConfirm(id)
    \/ CloseDeleteConfirm
    \/ Submit
    \/ ConfirmDelete
    \/ \E id \in MirrorIds, s \in StatusInputs : StatusChange(id, s)
    \/ \E i \in DOMAIN pending, ok \in BOOLEAN : Settle(i, ok)
    \/ \E id \in DOMAIN store, s \in StatusInputs : OtherClientSetStatus(id, s)

Spec == Init /\ [][Next]_vars

----------------------------------------------------------------------------
(* The list view: the search box, the status filter, the column headers    *)
(* and the projection filteredAndSortedLiterature.  The entries shown here *)
(* also carry the year.  A text is the sequence of its characters.         *)

\* the entries of a mirror
MaxView == 3

YearInputs == {2020, 2022}
ViewRelevances == {StarValue(i) : i \in StarIndexes}
ViewStatuses == {statusOptions[1], statusOptions[3]}

\* what is typed into the search box: nothing, "3" and "READ"
SearchInputs == {<< >>, <<"3">>, <<"R", "E", "A", "D">>}

\* the options of the status filter
FilterInputs == {"All", statusOptions[1], statusOptions[3], statusOptions[5]}

\* the column headers clicked
SortKeys == {"year", "relevance"}

UpperCase ==
    <<"A", "B", "C", "D", "E", "F", "G", "H", "I", "J", "K", "L", "M",
      "N", "O", "P", "Q", "R", "S", "T", "U", "V", "W", "X", "Y", "Z">>
LowerCase ==
    <<"a", "b", "c", "d", "e", "f", "g", "h", "i", "j", "k", "l", "m",
      "n", "o", "p", "q", "r", "s", "t", "u", "v", "w", "x", "y", "z">>
DigitChars == <<"0", "1", "2", "3", "4", "5", "6", "7", "8", "9">>

\* the characters of the status options
StatusText(st) ==
    CASE st = "To Read" -> <<"T", "o", " ", "R", "e", "a", "d">>
      [] st = "Reading" -> <<"R", "e", "a", "d", "i", "n", "g">>
      [] st = "Completed" -> <<"C", "o", "m", "p", "l", "e", "t", "e", "d">>
      [] st = "Suggested for Benchmark" ->
           <<"S", "u", "g", "g", "e", "s", "t", "e", "d", " ", "f", "o", "r",
             " ", "B", "e", "n", "c", "h", "m", "a", "r", "k">>
      [] st = "Benchmark" -> <<"B", "e", "n", "c", "h", "m", "a", "r", "k">>

\* String(n) of a non-negative integer
RECURSIVE NumberText(_)
NumberText(n) ==
    IF n < 10 THEN <<DigitChars[n + 1]>>
    ELSE NumberText(n \div 10) \o <<DigitChars[(n % 10) + 1]>>

\* String(val) of the value an entry holds in a field
StringOf(field, val) ==
    IF field = "status" THEN StatusText(val) ELSE NumberText(val)

\* toLowerCase of one character
LowerChar(c) ==
    IF \E i \in DOMAIN UpperCase : UpperCase[i] = c
    THEN LowerCase[CHOOSE i \in DOMAIN UpperCase : UpperCase[i] = c]
    ELSE c

\* String.prototype.toLowerCase
ToLowerCase(text) == [i \in DOMAIN text |-> LowerChar(text[i])]

\* String.prototype.includes
Includes(text, part) ==
    \E i \in 0..(Len(text) - Len(part)) : SubSeq(text, i + 1, i + Len(part)) = part

\* Object.values(item).some(val =>
\*     String(val).toLowerCase().includes(searchTerm.toLowerCase()))
SearchKeeps(item, term) ==
    \E f \in DOMAIN item :
        Includes(ToLowerCase(StringOf(f, item[f])), ToLowerCase(term))

\* a status filter that keeps every entry
StatusFilterKeepsAll(item, filter) == TRUE

\* item => item.status === statusFilter
StatusFilterKeeps(item, filter) == item.status = filter

\* a comparator that ignores the direction
CompareAscending(a, b, cfg) ==
    IF a[cfg.key] < b[cfg.key] THEN -1
    ELSE IF a[cfg.key] > b[cfg.key] THEN 1
    ELSE 0

\* the comparator handed to sort
Compare(a, b, cfg) ==
    IF a[cfg.key] < b[cfg.key]
    THEN (IF cfg.direction = "ascending" THEN -1 ELSE 1)
    ELSE IF a[cfg.key] > b[cfg.key]
    THEN (IF cfg.direction = "ascending" THEN 1 ELSE -1)
    ELSE 0

\* one step of a stable sort: e goes before the first element that the
\* comparator puts after it
Insert(sorted, e, cfg) ==
    LET later == {j \in DOMAIN sorted : Compare(sorted[j], e, cfg) > 0}
    IN  IF later = {} THEN Append(sorted, e)
        ELSE LET j == CHOOSE x \in later : \A y \in later : x <= y
             IN  SubSeq(sorted, 1, j - 1) \o <<e>> \o SubSeq(sorted, j, Len(sorted))

\* Array.prototype.sort, which is stable
RECURSIVE SortFrom(_, _, _)
SortFrom(sorted, rest, cfg) ==
    IF rest = << >> THEN sorted
    ELSE SortFrom(Insert(sorted, Head(rest), cfg), Tail(rest), cfg)

\* the body of the useMemo
Project(entries, term, filter, cfg) ==
    LET ByStatus(item) == StatusFilterKeeps(item, filter)
        BySearch(item) == SearchKeeps(item, term)
        afterStatus == IF filter # "All" THEN SelectSeq(entries, ByStatus)
                       ELSE entries
        afterSearch == IF term # << >> THEN SelectSeq(afterStatus, BySearch)
                       ELSE afterStatus
    IN  IF cfg.key # "null" THEN SortFrom(<< >>, afterSearch, cfg)
        ELSE afterSearch

filteredAndSortedLiterature ==
    Project(literature, searchTerm, statusFilter, sortConfig)

\* a handleSort that flips the direction whatever the column
DirectionFlipped(current, key) ==
    IF current.direction = "ascending" THEN "descending" ELSE "ascending"

\* handleSort: current.key === key && current.direction === 'ascending'
\*     ? 'descending' : 'ascending'
SortDirection(current, key) ==
    IF current.key = key /\ current.direction = "ascending"
    THEN "descending" ELSE "ascending"

viewUnchanged == <<gateVars, configSet, app, db, isAuthReady, isLoading,
                   literature, uiVars, authState, listeners, unsubscribe,
                   pending, dirty, lastSnapshot, storeVars>>

\* the search box's onChange: setSearchTerm(e.target.value)
SetSearchTerm(term) ==
    /\ Quiet
    /\ ListReachable
    /\ searchTerm' = term
    /\ UNCHANGED <<sortConfig, statusFilter, viewUnchanged>>

\* the status filter's onChange: setStatusFilter(e.target.value)
SetStatusFilter(filter) ==
    /\ Quiet
    /\ ListReachable
    /\ statusFilter' = filter
    /\ UNCHANGED <<searchTerm, sortConfig, viewUnchanged>>

\* handleSort(key), from a column header's onClick
HandleSort(key) ==
    /\ Quiet
    /\ ListReachable
    /\ sortConfig' = [key |-> key, direction |-> SortDirection(sortConfig, key)]
    /\ UNCHANGED <<searchTerm, statusFilter, viewUnchanged>>

\* the entry the editor saves under an identifier, as the snapshot shows it
ViewEntries(docId) ==
    {[id |-> docId, year |-> y, relevance |-> r, status |-> st] :
        y \in YearInputs, r \in ViewRelevances, st \in ViewStatuses}

\* the collections of documents 1..n, n up to MaxView
ViewStores ==
    UNION {[1..n -> {StripId(e) : e \in ViewEntries(1)}] : n \in 0..MaxView}

\* the page after the gate was unlocked, the identity arrived and the
\* subscription delivered its snapshot of the collection
InitView ==
    /\ sessionItem = "true"
    /\ isAuthenticated = TRUE
    /\ password = ""
    /\ error = ""
    /\ started = "none"
    /\ configSet = TRUE
    /\ app = "mounted"
    /\ db = "firestore"
    /\ isAuthReady = TRUE
    /\ isLoading = FALSE
    /\ store \in ViewStores
    /\ nextId = Len(store) + 1
    /\ literature = SnapshotMirror(store, << >>)
    /\ lastSnapshot = <<store>>
    /\ isModalOpen = FALSE
    /\ editingEntry = Null
    /\ showDeleteConfirm = 0
    /\ InitialView(searchTerm, sortConfig, statusFilter)
    /\ formData = Null
    /\ authState = "ready"
    /\ listeners = 1
    /\ unsubscribe = "active"
    /\ logged = "none"
    /\ pending = << >>
    /\ dirty = FALSE
    /\ acked = << >>

NextView ==
    \/ \E term \in SearchInputs : SetSearchTerm(term)
    \/ \E filter \in FilterInputs : SetStatusFilter(filter)
    \/ \E key \in SortKeys : HandleSort(key)

SpecView == InitView /\ [][NextView]_vars

----------------------------------------------------------------------------
(* Properties. *)

\* a step in which the store settles the call in flight at position i
Settles(i, ok) == i \in DOMAIN pending /\ Settle(i, ok)

\* a step in which a handler issues a remote call
Issues == Len(pending') = Len(pending) + 1

MirrorHolds(id, data) ==
    \E k \in DOMAIN literature :
        /\ literature[k].id = id
        /\ literature[k].relevance = data.relevance
        /\ literature[k].status = data.status

\* the mirror has one entry for each document of the snapshot and no other,
\* and the entry is the document's identifier with the document's fields
MirrorMatches(snap) ==
    /\ Len(literature) = Cardinality(DOMAIN snap)
    /\ \A d \in DOMAIN snap :
          \E k \in DOMAIN literature :
              /\ literature[k].id = d
              /\ DOMAIN literature[k] = (DOMAIN snap[d]) \cup {"id"}
              /\ \A f \in DOMAIN snap[d] : literature[k][f] = snap[d][f]

\* C1: before the first snapshot of a page the mirror is empty and from then on
\* it is exactly the entry set (identifier plus fields) of the snapshot
\* delivered last; a step that issues a save, remove or setStatus call, and a
\* step that settles one, leaves the mirror as it was.
C1_MirrorIsLastSnapshot ==
    /\ [](IF lastSnapshot = << >> THEN literature = << >>
          ELSE MirrorMatches(lastSnapshot[1]))
    /\ [][(Issues \/ \E i \in DOMAIN pending, ok \in BOOLEAN : Settles(i, ok))
            => literature' = literature]_vars

\* C1 witness: a save was acknowledged and changed the collection, and the
\* mirror still shows the snapshot delivered before it.
C1_Witness ==
    /\ lastSnapshot # << >>
    /\ literature # << >>
    /\ acked # << >>
    /\ store # lastSnapshot[1]
    /\ MirrorMatches(lastSnapshot[1])
    /\ ~MirrorMatches(store)

\* C2 as claimed: whenever a save or remove call settles, with success or with
\* failure, the dialog that issued it is closed.
C2_DialogClosedOnSettle ==
    [][\A i \in DOMAIN pending, ok \in BOOLEAN :
          (Settles(i, ok) /\ app = "mounted") =>
              /\ pending[i].src = "save" => ~isModalOpen'
              /\ pending[i].src = "remove" => showDeleteConfirm' = 0]_vars

\* C2 amended: a remove call that settles, with success or with failure, closes
\* the delete confirmation; a save call that succeeds closes the editor modal,
\* and one that fails logs the error and leaves the modal, the entry being
\* edited and the draft as they were.
C2_DialogAfterSettle ==
    [][\A i \in DOMAIN pending, ok \in BOOLEAN :
          (Settles(i, ok) /\ app = "mounted") =>
              /\ pending[i].src = "remove" => showDeleteConfirm' = 0
              /\ (pending[i].src = "save" /\ ok) =>
                    ~isModalOpen' /\ editingEntry' = Null
              /\ (pending[i].src = "save" /\ ~ok) =>
                    /\ isModalOpen' = isModalOpen
                    /\ editingEntry' = editingEntry
                    /\ formData' = formData
                    /\ logged' = "save"]_vars

\* C2 witness: a save has just failed and the editor modal is still open.
C2_Witness == logged = "save" /\ isModalOpen /\ formData # Null

\* C3 as claimed: with the connection parameters absent the application stays
\* in the loading state and makes no identity or subscription request.
C3_StaysLoading ==
    (app = "mounted" /\ ~configSet) =>
        isLoading /\ authState = "idle" /\ listeners = 0

\* C3 amended: with the connection parameters absent the application logs the
\* error and leaves the loading state at once: the main list view is rendered
\* over an empty mirror, db stays null, and no identity request, subscription
\* or remote call is ever made.
C3_RendersWithoutStore ==
    (app = "mounted" /\ ~configSet) =>
        /\ ~isLoading
        /\ ViewRendered
        /\ db = "null"
        /\ literature = << >>
        /\ authState = "idle"
        /\ listeners = 0
        /\ pending = << >>

\* C3 witness: the page has just mounted App without the parameters.
C3_Witness ==
    ~configSet /\ app = "mounted" /\ logged = "config" /\ ViewRendered

\* C4: a save call is an update addressed to the identifier of the entry being
\* edited when there is one and a create when there is none, and the record it
\* carries has no id field, whatever the draft holds.
C4_SaveCall ==
    [][(Issues /\ pending'[Len(pending')].src = "save") =>
          LET call == pending'[Len(pending')]
          IN  /\ "id" \notin DOMAIN call.data
              /\ \A f \in (DOMAIN formData) \ {"id"} :
                    f \in DOMAIN call.data /\ call.data[f] = formData[f]
              /\ IF editingEntry # Null
                 THEN call.kind = "update" /\ call.id = editingEntry.id
                 ELSE call.kind = "create"]_vars

\* C4 witness: an update is in flight for the entry being edited, whose draft
\* holds the entry's id.
C4_Witness ==
    /\ pending # << >>
    /\ pending[1].src = "save"
    /\ pending[1].kind = "update"
    /\ isModalOpen
    /\ editingEntry # Null
    /\ "id" \in DOMAIN formData

\* C5: at most one snapshot listener is active, the one whose handle the data
\* effect holds, and none is active once the component is unmounted.
C5_OneSubscription ==
    /\ listeners \in {0, 1}
    /\ listeners = 1 <=> unsubscribe = "active"
    /\ app # "mounted" => listeners = 0

\* C5 witness: the component was unmounted after its subscription had
\* delivered a snapshot.
C5_Witness ==
    app = "torn" /\ isAuthReady /\ lastSnapshot # << >> /\ listeners = 0

\* C6: a submit of text equal to the secret moves the gate from Locked to
\* Unlocked; a submit of any other text leaves it Locked, leaves session
\* storage as it was and sets a non-empty error message; once Unlocked the gate
\* stays so for the life of the page.
C6_GateSubmit ==
    /\ [][GateSubmit =>
            IF password = SHARED_PASSWORD
            THEN ~isAuthenticated /\ isAuthenticated'
            ELSE /\ ~isAuthenticated'
                 /\ sessionItem' = sessionItem
                 /\ error' # ""]_vars
    /\ [][(isAuthenticated /\ started' = "none") => isAuthenticated']_vars

\* C6 witness: text that differs from the secret only in case was submitted.
C6_Witness ==
    ~isAuthenticated /\ password = "Secret" /\ error # "" /\ sessionItem = "null"

\* C7: an identity request or an active subscription implies that the gate is
\* Unlocked, and a subscription is active only with the identity available.
C7_GateGuards ==
    /\ (app # "none" \/ authState # "idle" \/ listeners > 0) => isAuthenticated
    /\ listeners > 0 => (isAuthReady /\ authState = "ready")

\* C7 witness: the subscription is active behind the unlocked gate.
C7_Witness == listeners = 1 /\ isAuthenticated /\ authState = "ready"

\* C8: the gate is Unlocked exactly when the session flag is stored; the flag
\* is stored only by a submit of the secret and removed only by the end of the
\* session; a reload starts the page in the state the gate was in, and a new
\* session starts Locked.
C8_SessionPersistence ==
    /\ [](isAuthenticated <=> sessionItem = "true")
    /\ [][sessionItem' # sessionItem =>
            \/ sessionItem' = "true" /\ GateSubmit /\ password = SHARED_PASSWORD
            \/ sessionItem' = "null" /\ started' = "open"]_vars
    /\ [][started' = "reload" => isAuthenticated' = isAuthenticated]_vars
    /\ [][started' = "open" => ~isAuthenticated']_vars

\* C8 witness: the page was reloaded after an unlock and starts Unlocked.
C8_Witness == started = "reload" /\ isAuthenticated /\ app = "mounted"

\* C9: once the anonymous sign-in has failed, no subscription is active, the
\* identity is not ready, the mirror is empty and the view shows the loader;
\* the failure stands until a page is loaded.
C9_AuthFailureHangs ==
    /\ [](authState = "failed" =>
            /\ listeners = 0
            /\ unsubscribe = "none"
            /\ ~isAuthReady
            /\ literature = << >>
            /\ isLoading)
    /\ [][(authState = "failed" /\ started' = "none") => authState' = "failed"]_vars

\* C9 witness: the sign-in failed and the collection changed afterwards.
C9_Witness ==
    authState = "failed" /\ app = "mounted" /\ logged = "none" /\ isLoading

\* C10: once a save is acknowledged and, with no other write to the entry
\* acknowledged since, the mirror is up to date with the collection, the
\* mirror holds the entry with the relevance and status the save carried.
C10_RoundTrip ==
    (acked # << >> /\ lastSnapshot # << >> /\ ~dirty) =>
        MirrorHolds(acked[1].id, acked[1].data)

\* C10 witness: relevance 3 and status "Reading" were saved and the mirror
\* shows them.
C10_Witness ==
    /\ acked # << >>
    /\ lastSnapshot # << >>
    /\ ~dirty
    /\ acked[1].data.relevance = totalStars
    /\ acked[1].data.status = statusOptions[2]
    /\ MirrorHolds(acked[1].id, acked[1].data)

\* the ratings an entry may carry
RelevanceRange == 1..totalStars

\* C11: every record a save call carries, for a create or for an update, has a
\* relevance of 1, 2 or 3, the editor's draft never holds another one, and no
\* document of the collection does.
C11_RelevanceInRange ==
    /\ \A i \in DOMAIN pending :
          pending[i].src = "save" => pending[i].data.relevance \in RelevanceRange
    /\ formData # Null => formData.relevance \in RelevanceRange
    /\ \A d \in DOMAIN store : store[d].relevance \in RelevanceRange

\* C11 witness: the first star was clicked in the editor of an existing entry
\* and the update that carries its rating is in flight.
C11_Witness ==
    /\ pending # << >>
    /\ pending[1].src = "save"
    /\ pending[1].kind = "update"
    /\ pending[1].data.relevance = 1
    /\ store[pending[1].id].relevance # 1

\* C14: the draft is seeded from the entry when the modal opens and no snapshot
\* and no write to the collection refreshes it while the modal stays open; a
\* save carries the draft's status, and an acknowledged update leaves that
\* status in the document whatever another client wrote there in between, and
\* marks the collection as changed for the subscribed mirror.
C14_StaleDraftOverwrites ==
    /\ [][(~isModalOpen /\ isModalOpen' /\ editingEntry' # Null) =>
            (editingEntry' \in Range(literature) /\ formData' = editingEntry')]_vars
    /\ [][(isModalOpen /\ isModalOpen'
               /\ (literature' # literature \/ store' # store)) =>
            (formData' = formData /\ editingEntry' = editingEntry)]_vars
    /\ [][(Issues /\ pending'[Len(pending')].src = "save") =>
            pending'[Len(pending')].data.status = formData.status]_vars
    /\ [][\A i \in DOMAIN pending :
            (Settles(i, TRUE) /\ pending[i].src = "save"
                 /\ pending[i].kind = "update") =>
                /\ store'[pending[i].id].status = pending[i].data.status
                /\ (store' # store /\ listeners > 0) => dirty']_vars

\* C14 witness: the modal was opened on an entry, another client's setStatus
\* changed the document and a snapshot brought the change to the mirror, and
\* the update in flight carries the status the draft was seeded with.
C14_Witness ==
    /\ isModalOpen
    /\ editingEntry # Null
    /\ formData.status = editingEntry.status
    /\ pending # << >>
    /\ pending[1].src = "save"
    /\ pending[1].kind = "update"
    /\ pending[1].id = editingEntry.id
    /\ pending[1].data.status = editingEntry.status
    /\ pending[1].id \in DOMAIN store
    /\ store[pending[1].id].status # editingEntry.status
    /\ \E k \in DOMAIN literature :
          /\ literature[k].id = editingEntry.id
          /\ literature[k].status = store[editingEntry.id].status

\* the part occurs in the text, letters compared without regard to case
OccursFold(text, part) ==
    \E o \in 0..(Len(text) - Len(part)) :
        \A k \in 1..Len(part) : LowerChar(text[o + k]) = LowerChar(part[k])

\* the entries of the mirror that the search term alone keeps
SearchOnly ==
    {e \in Range(literature) :
        \/ searchTerm = << >>
        \/ \E f \in DOMAIN e : OccursFold(StringOf(f, e[f]), searchTerm)}

\* the entries of the mirror that the search term and the status filter keep
Filtered == {e \in SearchOnly : statusFilter = "All" \/ e.status = statusFilter}

\* C12: every entry of the projection is an entry of the mirror; with the
\* status filter set to a status every entry of the projection has that
\* status; with the filter set to "All" the projection has as many entries as
\* the search term alone keeps.
C12_StatusFilter ==
    LET out == filteredAndSortedLiterature
    IN  /\ \A i \in DOMAIN out : out[i] \in Range(literature)
        /\ statusFilter # "All" =>
              \A i \in DOMAIN out : out[i].status = statusFilter
        /\ statusFilter = "All" => Len(out) = Cardinality(SearchOnly)

\* C12 witness: the filter is "Completed", the search term is "3", and the
\* filter drops an entry that the search term keeps.
C12_Witness ==
    /\ statusFilter = statusOptions[3]
    /\ searchTerm = <<"3">>
    /\ Len(filteredAndSortedLiterature) >= 1
    /\ Len(filteredAndSortedLiterature) < Cardinality(SearchOnly)

\* C13: sorted by year or by relevance, the projection is non-increasing in
\* that field when the direction is descending and non-decreasing when it is
\* ascending, and it holds each filtered entry of the mirror exactly once.
C13_SortOrder ==
    LET out == filteredAndSortedLiterature
        key == sortConfig.key
    IN  /\ key \in {"year", "relevance"} =>
              \A i, j \in DOMAIN out :
                  i < j => IF sortConfig.direction = "descending"
                           THEN out[i][key] >= out[j][key]
                           ELSE out[i][key] <= out[j][key]
        /\ Range(out) = Filtered
        /\ Len(out) = Cardinality(Filtered)

\* C13 witness: three entries sorted by year, descending, that the mirror
\* holds in another order.
C13_Witness ==
    /\ sortConfig = [key |-> "year", direction |-> "descending"]
    /\ Len(filteredAndSortedLiterature) = 3
    /\ filteredAndSortedLiterature[1].year > filteredAndSortedLiterature[3].year
    /\ literature[1].year < literature[3].year

\* C15: handleSort(k) sets the sort key to k; the direction becomes descending
\* when the key was k already and the direction was ascending, and ascending
\* otherwise, so the first click on a column sorts ascending and further clicks
\* on it alternate; the sort key is never null.
C15_HandleSort ==
    /\ [][\A k \in SortKeys : HandleSort(k) => sortConfig'.key = k]_vars
    /\ [][sortConfig' # sortConfig =>
            sortConfig'.direction =
                IF sortConfig'.key = sortConfig.key
                      /\ sortConfig.direction = "ascending"
                THEN "descending" ELSE "ascending"]_vars
    /\ [][(sortConfig = [key |-> "relevance", direction |-> "descending"]
              /\ sortConfig' # sortConfig) =>
            sortConfig'.direction = "ascending"]_vars
    /\ [](sortConfig.key # "null")

\* C15 witness: the year column was clicked twice.
C15_Witness == sortConfig = [key |-> "year", direction |-> "descending"]

====
